---- MODULE Spec2Model ----
(* Value model of src/src/values.rs: GridPosition, Direction, Color, Block,  *)
(* Piece and PositionedBlock, with the i8 arithmetic of GridPosition::offset *)
(* under both overflow policies a Rust build can have.                       *)
EXTENDS Integers, Sequences, FiniteSets, TLC

VARIABLES build, issued, made, piece, call, hist, rots, dirs, turns, ps, moves

vars == <<build, issued, made, piece, call, hist, rots, dirs, turns, ps, moves>>

(* ------------------------------------------------------------------------ *)
(* Bounds                                                                    *)
(* ------------------------------------------------------------------------ *)

\* how far from the ends of the i8 range the explored coordinates lie
Reach == 1

\* length of a run of rotations kept with its full history
MaxRot == 4

\* length of a run of GridPosition::offset calls kept with its full history
MaxMoves == 2

\* size of the pool Uuid::new_v4 draws from
MaxIds == 2

\* number of blocks constructed in a run of constructors
MaxMade == 2

(* ------------------------------------------------------------------------ *)
(* i8                                                                        *)
(* ------------------------------------------------------------------------ *)

I8Min == -128

I8Max == 127

I8 == I8Min .. I8Max

Wrap8(n) == ((n - I8Min) % 256) + I8Min

\* The build profiles: "debug" has overflow-checks on (an overflowing + or -
\* panics), "release" has them off (two's-complement wrap).
Builds == {"debug", "release"}

\* i8 `a + b` as the build evaluates it: [ok, val]; ok = FALSE is a panic.
AddI8(a, b) ==
  IF a + b \in I8 THEN [ok |-> TRUE, val |-> a + b]
  ELSE IF build = "debug" THEN [ok |-> FALSE, val |-> a]
  ELSE [ok |-> TRUE, val |-> Wrap8(a + b)]

\* i8 `a - b` as the build evaluates it.
SubI8(a, b) ==
  IF a - b \in I8 THEN [ok |-> TRUE, val |-> a - b]
  ELSE IF build = "debug" THEN [ok |-> FALSE, val |-> a]
  ELSE [ok |-> TRUE, val |-> Wrap8(a - b)]

(* ------------------------------------------------------------------------ *)
(* Direction, Color                                                          *)
(* ------------------------------------------------------------------------ *)

Direction == {"Up", "Right", "Down", "Left"}

Color == {"Blue", "Red", "Green", "Yellow"}

Direction_all == <<"Up", "Right", "Down", "Left">>

\* a clockwise that turns the wrong way out of Down
Direction_clockwise_skew(self) ==
  CASE self = "Up"    -> "Right"
    [] self = "Right" -> "Down"
    [] self = "Down"  -> "Right"
    [] self = "Left"  -> "Up"

Direction_clockwise(self) ==
  CASE self = "Up"    -> "Right"
    [] self = "Right" -> "Down"
    [] self = "Down"  -> "Left"
    [] self = "Left"  -> "Up"

\* an anti_clockwise that copies clockwise
Direction_anti_clockwise_same(self) ==
  CASE self = "Up"    -> "Right"
    [] self = "Right" -> "Down"
    [] self = "Down"  -> "Left"
    [] self = "Left"  -> "Up"

Direction_anti_clockwise(self) ==
  CASE self = "Up"    -> "Left"
    [] self = "Right" -> "Up"
    [] self = "Down"  -> "Right"
    [] self = "Left"  -> "Down"

(* ------------------------------------------------------------------------ *)
(* GridPosition                                                              *)
(* ------------------------------------------------------------------------ *)

GridPosition_new(x, y) == [x |-> x, y |-> y]

\* GridPosition::offset: [ok, val]; ok = FALSE when the arithmetic panics.
GridPosition_offset(self, direction) ==
  CASE direction = "Up" ->
         LET r == AddI8(self.y, 1)
         IN  [ok |-> r.ok, val |-> [x |-> self.x, y |-> r.val]]
    [] direction = "Down" ->
         LET r == SubI8(self.y, 1)
         IN  [ok |-> r.ok, val |-> [x |-> self.x, y |-> r.val]]
    [] direction = "Left" ->
         LET r == SubI8(self.x, 1)
         IN  [ok |-> r.ok, val |-> [x |-> r.val, y |-> self.y]]
    [] direction = "Right" ->
         LET r == AddI8(self.x, 1)
         IN  [ok |-> r.ok, val |-> [x |-> r.val, y |-> self.y]]

(* ------------------------------------------------------------------------ *)
(* Block                                                                     *)
(* ------------------------------------------------------------------------ *)

\* The values Uuid::new_v4() draws from.
Ids == 1 .. MaxIds

\* Uuid::new_v4(): the values it can return, given those returned so far.
\* A version-4 UUID is 122 random bits; a repeat is taken not to happen.
Uuid_new_v4(used) == Ids \ used

\* Block::new, with the value Uuid::new_v4() returned.
Block_new(color, breaker, uuid) == [id |-> uuid, color |-> color, breaker |-> breaker]

\* an equality derived from the content instead of the identity
Block_eq_structural(self, other) == self.color = other.color /\ self.breaker = other.breaker

\* impl PartialEq for Block
Block_eq(self, other) == self.id = other.id

\* #[derive(Copy, Clone)] on Block
Block_clone(self) == [id |-> self.id, color |-> self.color, breaker |-> self.breaker]

(* ------------------------------------------------------------------------ *)
(* PositionedBlock, Piece                                                    *)
(* ------------------------------------------------------------------------ *)

PositionedBlock_new(block, position) == [block |-> block, position |-> position]

PositionedBlock_x(self) == self.position.x

PositionedBlock_y(self) == self.position.y

PositionedBlock_block(self) == self.block

\* Piece::rand, with the values its random draws returned.  blocks[1] is the
\* source's blocks[0] (the anchor), blocks[2] its blocks[1] (the orbiting one).
Piece_rand(x, y, block1, block2) ==
  [blocks |-> <<block1, block2>>, position |-> GridPosition_new(x, y), direction |-> "Up"]

\* a dup_to that builds the copy with the two blocks exchanged
Piece_dup_to_swapped(self, position, direction) ==
  [blocks |-> <<self.blocks[2], self.blocks[1]>>, position |-> position, direction |-> direction]

Piece_dup_to(self, position, direction) ==
  [blocks |-> self.blocks, position |-> position, direction |-> direction]

\* a blocks() without the special case for Down
Piece_blocks_noswap(self) ==
  LET position == self.position
      off == GridPosition_offset(position, self.direction)
  IN  [ok  |-> off.ok,
       val |-> << PositionedBlock_new(self.blocks[1], position),
                  PositionedBlock_new(self.blocks[2], off.val) >>]

\* Piece::blocks: [ok, val]; val is the returned array, ok = FALSE a panic.
Piece_blocks(self) ==
  LET position == self.position
      off == GridPosition_offset(position, self.direction)
      positions == << PositionedBlock_new(self.blocks[1], position),
                      PositionedBlock_new(self.blocks[2], off.val) >>
  IN  [ok  |-> off.ok,
       val |-> IF self.direction = "Down" THEN <<positions[2], positions[1]>>
               ELSE positions]

\* an offset that also turns the piece to face the way it moved
Piece_offset_turns(self, direction) ==
  LET position == GridPosition_offset(self.position, direction)
  IN  [ok |-> position.ok,
       val |-> [blocks |-> self.blocks, direction |-> direction, position |-> position.val]]

\* Piece::offset: [ok, val]
Piece_offset(self, direction) ==
  LET position == GridPosition_offset(self.position, direction)
  IN  [ok |-> position.ok,
       val |-> [blocks |-> self.blocks, direction |-> self.direction, position |-> position.val]]

Piece_clockwise(self) ==
  LET direction == Direction_clockwise(self.direction)
  IN  [blocks |-> self.blocks, direction |-> direction, position |-> self.position]

\* an anti_clockwise that rotates by exchanging the two blocks as well
Piece_anti_clockwise_swaps(self) ==
  LET direction == Direction_anti_clockwise(self.direction)
  IN  [blocks |-> <<self.blocks[2], self.blocks[1]>>, direction |-> direction,
       position |-> self.position]

Piece_anti_clockwise(self) ==
  LET direction == Direction_anti_clockwise(self.direction)
  IN  [blocks |-> self.blocks, direction |-> direction, position |-> self.position]

(* ------------------------------------------------------------------------ *)
(* Inputs                                                                    *)
(* ------------------------------------------------------------------------ *)

\* value of a variable no operation of the run at hand touches
None == "none"

\* coordinates handed to Piece::rand and Piece::dup_to: both ends of i8
InputCoords == {I8Min, I8Max}

\* the colours the random draws of a run return (Color::rand can return any
\* of Color)
DrawnColors == {"Blue", "Red"}

InputPositions == {GridPosition_new(x, y) : x \in InputCoords, y \in InputCoords}

\* coordinates a run explores: within Reach of either end of i8
NearCoords == {c \in I8 : c <= I8Min + Reach \/ c >= I8Max - Reach}

InRegion(position) == position.x \in NearCoords /\ position.y \in NearCoords

\* the record kept of the last call: receiver, arguments, outcome
Call(op, ok, self, dir, pos, ret, out) ==
  [op |-> op, ok |-> ok, self |-> self, dir |-> dir, pos |-> pos, ret |-> ret, out |-> out]

(* ------------------------------------------------------------------------ *)
(* Spec: one piece from Piece::rand, then any sequence of Piece operations   *)
(* ------------------------------------------------------------------------ *)

\* let p = Piece::rand(x, y)
Init ==
  /\ build \in Builds
  /\ \E pos \in InputPositions, c1 \in DrawnColors, k1 \in BOOLEAN, c2 \in DrawnColors, k2 \in BOOLEAN :
       \E u1 \in Uuid_new_v4({}) :
         \E u2 \in Uuid_new_v4({u1}) :
           LET block1 == Block_new(c1, k1, u1)
               block2 == Block_new(c2, k2, u2)
               p == Piece_rand(pos.x, pos.y, block1, block2)
           IN  /\ issued = {u1, u2}
               /\ made = <<block1, block2>>
               /\ piece = p
               /\ call = Call("rand", TRUE, p, "Up", pos, p, <<>>)
  /\ hist = None /\ rots = None
  /\ dirs = None /\ turns = None
  /\ ps = None /\ moves = None

\* p = p.offset(d)
DoOffset ==
  /\ call.ok
  /\ \E d \in Direction :
       LET r == Piece_offset(piece, d)
       IN  /\ InRegion(r.val.position)
           /\ call' = Call("offset", r.ok, piece, d, piece.position, r.val, <<>>)
           /\ piece' = IF r.ok THEN r.val ELSE piece
  /\ UNCHANGED <<build, issued, made, hist, rots, dirs, turns, ps, moves>>

\* p = p.clockwise()
DoClockwise ==
  /\ call.ok
  /\ LET r == Piece_clockwise(piece)
     IN  /\ call' = Call("clockwise", TRUE, piece, piece.direction, piece.position, r, <<>>)
         /\ piece' = r
  /\ UNCHANGED <<build, issued, made, hist, rots, dirs, turns, ps, moves>>

\* p = p.anti_clockwise()
DoAntiClockwise ==
  /\ call.ok
  /\ LET r == Piece_anti_clockwise(piece)
     IN  /\ call' = Call("anti_clockwise", TRUE, piece, piece.direction, piece.position, r, <<>>)
         /\ piece' = r
  /\ UNCHANGED <<build, issued, made, hist, rots, dirs, turns, ps, moves>>

\* p = p.dup_to(pos, d)
DoDupTo ==
  /\ call.ok
  /\ \E pos \in InputPositions, d \in Direction :
       LET r == Piece_dup_to(piece, pos, d)
       IN  /\ call' = Call("dup_to", TRUE, piece, d, pos, r, <<>>)
           /\ piece' = r
  /\ UNCHANGED <<build, issued, made, hist, rots, dirs, turns, ps, moves>>

\* p.blocks()
DoBlocks ==
  /\ call.ok
  /\ LET r == Piece_blocks(piece)
     IN  call' = Call("blocks", r.ok, piece, piece.direction, piece.position, piece,
                      IF r.ok THEN r.val ELSE <<>>)
  /\ UNCHANGED <<build, issued, made, piece, hist, rots, dirs, turns, ps, moves>>

Next == DoOffset \/ DoClockwise \/ DoAntiClockwise \/ DoDupTo \/ DoBlocks

Spec == Init /\ [][Next]_vars

(* ------------------------------------------------------------------------ *)
(* SpecRot: one piece from Piece::rand, then a run of rotations, all kept    *)
(* ------------------------------------------------------------------------ *)

InitRot ==
  /\ build \in Builds
  /\ \E pos \in InputPositions, c1 \in DrawnColors, k1 \in BOOLEAN, c2 \in DrawnColors, k2 \in BOOLEAN :
       \E u1 \in Uuid_new_v4({}) :
         \E u2 \in Uuid_new_v4({u1}) :
           LET block1 == Block_new(c1, k1, u1)
               block2 == Block_new(c2, k2, u2)
           IN  /\ issued = {u1, u2}
               /\ made = <<block1, block2>>
               /\ hist = << Piece_rand(pos.x, pos.y, block1, block2) >>
  /\ rots = <<>>
  /\ piece = None /\ call = None
  /\ dirs = None /\ turns = None
  /\ ps = None /\ moves = None

\* p = p.clockwise(), the pieces so far kept in hist
RotClockwise ==
  /\ Len(rots) < MaxRot
  /\ hist' = Append(hist, Piece_clockwise(hist[Len(hist)]))
  /\ rots' = Append(rots, "clockwise")
  /\ UNCHANGED <<build, issued, made, piece, call, dirs, turns, ps, moves>>

\* p = p.anti_clockwise(), the pieces so far kept in hist
RotAntiClockwise ==
  /\ Len(rots) < MaxRot
  /\ hist' = Append(hist, Piece_anti_clockwise(hist[Len(hist)]))
  /\ rots' = Append(rots, "anti_clockwise")
  /\ UNCHANGED <<build, issued, made, piece, call, dirs, turns, ps, moves>>

NextRot == RotClockwise \/ RotAntiClockwise

SpecRot == InitRot /\ [][NextRot]_vars

(* ------------------------------------------------------------------------ *)
(* SpecDir: a direction of Direction::all(), then a run of turns, all kept   *)
(* ------------------------------------------------------------------------ *)

InitDir ==
  /\ \E i \in 1 .. Len(Direction_all) : dirs = << Direction_all[i] >>
  /\ turns = <<>>
  /\ build = None /\ issued = None /\ made = None
  /\ piece = None /\ call = None
  /\ hist = None /\ rots = None
  /\ ps = None /\ moves = None

\* d = d.clockwise()
TurnClockwise ==
  /\ Len(turns) < MaxRot
  /\ dirs' = Append(dirs, Direction_clockwise(dirs[Len(dirs)]))
  /\ turns' = Append(turns, "clockwise")
  /\ UNCHANGED <<build, issued, made, piece, call, hist, rots, ps, moves>>

\* d = d.anti_clockwise()
TurnAntiClockwise ==
  /\ Len(turns) < MaxRot
  /\ dirs' = Append(dirs, Direction_anti_clockwise(dirs[Len(dirs)]))
  /\ turns' = Append(turns, "anti_clockwise")
  /\ UNCHANGED <<build, issued, made, piece, call, hist, rots, ps, moves>>

NextDir == TurnClockwise \/ TurnAntiClockwise

SpecDir == InitDir /\ [][NextDir]_vars

(* ------------------------------------------------------------------------ *)
(* SpecPos: a GridPosition, then a run of GridPosition::offset, all kept     *)
(* ------------------------------------------------------------------------ *)

\* coordinates handed to GridPosition::new: near both ends of i8, and 0
StartCoords == NearCoords \cup {0}

\* let p = GridPosition::new(x, y)
InitPos ==
  /\ build \in Builds
  /\ \E x \in StartCoords, y \in StartCoords :
       ps = << [ok |-> TRUE, val |-> GridPosition_new(x, y)] >>
  /\ moves = <<>>
  /\ issued = None /\ made = None
  /\ piece = None /\ call = None
  /\ hist = None /\ rots = None
  /\ dirs = None /\ turns = None

\* p = p.offset(d); a panic ends the run
Move ==
  /\ Len(moves) < MaxMoves
  /\ ps[Len(ps)].ok
  /\ \E d \in Direction :
       /\ ps' = Append(ps, GridPosition_offset(ps[Len(ps)].val, d))
       /\ moves' = Append(moves, d)
  /\ UNCHANGED <<build, issued, made, piece, call, hist, rots, dirs, turns>>

NextPos == Move

SpecPos == InitPos /\ [][NextPos]_vars

(* ------------------------------------------------------------------------ *)
(* SpecBlock: a run of Block::new, Piece::rand and copies of blocks          *)
(* ------------------------------------------------------------------------ *)

\* the piece variable before any Piece::rand: a piece of no blocks
NoPiece == [blocks |-> <<>>, position |-> GridPosition_new(0, 0), direction |-> "Up"]

InitBlock ==
  /\ build \in Builds
  /\ issued = {}
  /\ made = <<>>
  /\ piece = NoPiece
  /\ call = [op |-> "none", src |-> None, ret |-> None]
  /\ hist = None /\ rots = None
  /\ dirs = None /\ turns = None
  /\ ps = None /\ moves = None

\* let b = Block::new(color, breaker)
CallBlockNew ==
  /\ Len(made) < MaxMade
  /\ \E color \in Color, breaker \in BOOLEAN :
       \E u \in Uuid_new_v4(issued) :
         LET b == Block_new(color, breaker, u)
         IN  /\ issued' = issued \cup {u}
             /\ made' = Append(made, b)
             /\ call' = [op |-> "new", src |-> None, ret |-> b]
  /\ UNCHANGED <<build, piece, hist, rots, dirs, turns, ps, moves>>

\* let p = Piece::rand(x, y)
CallPieceRand ==
  /\ Len(made) + 2 <= MaxMade
  /\ \E pos \in InputPositions, c1 \in DrawnColors, k1 \in BOOLEAN, c2 \in DrawnColors, k2 \in BOOLEAN :
       \E u1 \in Uuid_new_v4(issued) :
         \E u2 \in Uuid_new_v4(issued \cup {u1}) :
           LET block1 == Block_new(c1, k1, u1)
               block2 == Block_new(c2, k2, u2)
           IN  /\ issued' = issued \cup {u1, u2}
               /\ made' = made \o <<block1, block2>>
               /\ piece' = Piece_rand(pos.x, pos.y, block1, block2)
               /\ call' = [op |-> "rand", src |-> None, ret |-> block2]
  /\ UNCHANGED <<build, hist, rots, dirs, turns, ps, moves>>

\* let c = b  (Block is Copy)
CopyBlock ==
  /\ \E i \in 1 .. Len(made) :
       call' = [op |-> "copy", src |-> made[i], ret |-> Block_clone(made[i])]
  /\ UNCHANGED <<build, issued, made, piece, hist, rots, dirs, turns, ps, moves>>

NextBlock == CallBlockNew \/ CallPieceRand \/ CopyBlock

SpecBlock == InitBlock /\ [][NextBlock]_vars

(* ------------------------------------------------------------------------ *)
(* Properties of Piece (checked under Spec)                                  *)
(* ------------------------------------------------------------------------ *)

IsTransform(op) == op \in {"offset", "clockwise", "anti_clockwise", "dup_to"}

\* C1: blocks() returns two PositionedBlocks: facing Down, the orbiting block
\* at position.offset(Down) first and the anchor at position second; facing
\* Up, Left or Right, the anchor at position first and the orbiting block at
\* position.offset(direction) second.  It returns whenever that offset does.
C1_BlocksOrder ==
  call.op = "blocks" =>
    LET p == call.self.position
        d == call.self.direction
        b == call.self.blocks
        off == GridPosition_offset(p, d)
    IN  /\ call.ok = off.ok
        /\ call.ok =>
             /\ Len(call.out) = 2
             /\ call.out = IF d = "Down"
                           THEN << [block |-> b[2], position |-> off.val],
                                   [block |-> b[1], position |-> p] >>
                           ELSE << [block |-> b[1], position |-> p],
                                   [block |-> b[2], position |-> off.val] >>

\* blocks() has returned for a piece facing Down, away from the lower edge
C1_Witness ==
  /\ call.op = "blocks" /\ call.ok
  /\ call.self.direction = "Down"
  /\ call.self.position.y > I8Min
  /\ call.out[1].block.id = call.self.blocks[2].id

\* C2: after any sequence of transforms from Piece::rand, the pair blocks()
\* returns is ordered bottom to top: y of the first <= y of the second,
\* strictly when facing Up or Down, equal when facing Left or Right.
C2_BottomToTop ==
  (call.op = "blocks" /\ call.ok) =>
    LET y0 == PositionedBlock_y(call.out[1])
        y1 == PositionedBlock_y(call.out[2])
        d  == call.self.direction
    IN  /\ y0 <= y1
        /\ d \in {"Up", "Down"} => y0 < y1
        /\ d \in {"Left", "Right"} => y0 = y1

UnitX(d) == CASE d = "Left" -> -1 [] d = "Right" -> 1 [] OTHER -> 0

UnitY(d) == CASE d = "Up" -> 1 [] d = "Down" -> -1 [] OTHER -> 0

\* C3: after any sequence of transforms, at any i8 anchor coordinates,
\* blocks() reports the orbiting block at the anchor position plus the unit
\* vector of the facing direction, and the two blocks in different cells.
C3_OrbitAdjacent ==
  (call.op = "blocks" /\ call.ok) =>
    LET p == call.self.position
        d == call.self.direction
        orbit == IF d = "Down" THEN call.out[1] ELSE call.out[2]
        anchor == IF d = "Down" THEN call.out[2] ELSE call.out[1]
    IN  /\ orbit.position.x = p.x + UnitX(d)
        /\ orbit.position.y = p.y + UnitY(d)
        /\ anchor.position = p
        /\ orbit.position # anchor.position

\* C4: after any sequence of offset, clockwise, anti_clockwise and dup_to the
\* piece holds the two blocks Piece::rand made, in the same slots, with the
\* same identity, color and breaker flag.
C4_SameBlocks ==
  /\ Len(piece.blocks) = 2
  /\ \A i \in 1 .. 2 :
       /\ piece.blocks[i].id = made[i].id
       /\ piece.blocks[i].color = made[i].color
       /\ piece.blocks[i].breaker = made[i].breaker
  /\ IsTransform(call.op) => call.ret.blocks = call.self.blocks

\* a piece moved off an input position after it was turned to face Down
C4_Witness ==
  /\ call.op = "offset" /\ call.ok
  /\ piece.direction = "Down"
  /\ piece.position \notin InputPositions
  /\ piece.blocks = made

\* C5 as stated: for every piece P and position pos2,
\* P.dup_to(pos2, Left).blocks()[0].block() == P.blocks()[0].block().
C5_DupToFirstBlock ==
  (/\ call.op = "dup_to" /\ call.dir = "Left"
   /\ Piece_blocks(call.ret).ok /\ Piece_blocks(call.self).ok) =>
    Block_eq(PositionedBlock_block(Piece_blocks(call.ret).val[1]),
             PositionedBlock_block(Piece_blocks(call.self).val[1]))

\* C5 amended: the first block of P.dup_to(pos2, Left).blocks() is P's anchor
\* block: P.blocks()[0].block() when P faces Up, Left or Right, and
\* P.blocks()[1].block() when P faces Down.
C5_DupToAnchor ==
  (/\ call.op = "dup_to" /\ call.dir = "Left"
   /\ Piece_blocks(call.ret).ok) =>
    LET first == PositionedBlock_block(Piece_blocks(call.ret).val[1])
        was   == Piece_blocks(call.self)
    IN  /\ Block_eq(first, call.self.blocks[1])
        /\ was.ok =>
             IF call.self.direction = "Down"
             THEN /\ Block_eq(first, PositionedBlock_block(was.val[2]))
                  /\ ~Block_eq(first, PositionedBlock_block(was.val[1]))
             ELSE Block_eq(first, PositionedBlock_block(was.val[1]))

\* a piece facing Down was dup_to'ed to face Left, both blocks() returning
C5_Witness ==
  /\ call.op = "dup_to" /\ call.dir = "Left"
  /\ call.self.direction = "Down"
  /\ Piece_blocks(call.ret).ok /\ Piece_blocks(call.self).ok

\* C10: offset(d) moves the anchor to position.offset(d) and keeps the facing
\* direction and both blocks; clockwise and anti_clockwise change the facing
\* direction and keep the anchor position and both blocks.
C10_Frame ==
  /\ (call.op = "offset" /\ call.ok) =>
       /\ call.ret.position = GridPosition_offset(call.self.position, call.dir).val
       /\ call.ret.direction = call.self.direction
       /\ call.ret.blocks = call.self.blocks
  /\ call.op \in {"clockwise", "anti_clockwise"} =>
       /\ call.ret.position = call.self.position
       /\ call.ret.blocks = call.self.blocks
       /\ call.ret.direction # call.self.direction
       /\ call.ret.direction = IF call.op = "clockwise"
                               THEN Direction_clockwise(call.self.direction)
                               ELSE Direction_anti_clockwise(call.self.direction)

\* a piece facing Left was moved Up to another cell
C10_Witness ==
  /\ call.op = "offset" /\ call.ok
  /\ call.dir = "Up"
  /\ call.self.direction = "Left"
  /\ call.ret.position # call.self.position

(* ------------------------------------------------------------------------ *)
(* Properties of Block identity (checked under SpecBlock)                    *)
(* ------------------------------------------------------------------------ *)

\* C6: every constructed block has an identity no earlier block has; two
\* blocks are equal exactly when they carry the same identity, so separately
\* constructed blocks are unequal whatever their color and breaker, the two
\* blocks of a Piece::rand piece are unequal, and a copy equals its original.
C6_Identity ==
  /\ \A i \in 1 .. Len(made) : \A j \in 1 .. Len(made) :
       /\ i < j => made[j].id \notin {made[k].id : k \in 1 .. i}
       /\ Block_eq(made[i], made[j]) <=> (i = j)
       /\ Block_eq(made[i], made[j]) <=> (made[i].id = made[j].id)
  /\ issued = {made[i].id : i \in 1 .. Len(made)}
  /\ Len(piece.blocks) = 2 => ~Block_eq(piece.blocks[1], piece.blocks[2])
  /\ call.op = "copy" =>
       /\ Block_eq(call.ret, call.src)
       /\ \A i \in 1 .. Len(made) : Block_eq(call.ret, made[i]) <=> Block_eq(call.src, made[i])

\* two Block::new calls with the same color and breaker, then a copy of one
C6_Witness ==
  /\ Len(made) = 2
  /\ Len(piece.blocks) = 0
  /\ made[1].color = made[2].color /\ made[1].breaker = made[2].breaker
  /\ call.op = "copy" /\ call.src = made[2]

(* ------------------------------------------------------------------------ *)
(* Properties of GridPosition::offset (checked under SpecPos)                *)
(* ------------------------------------------------------------------------ *)

Opposite(d) ==
  CASE d = "Up" -> "Down" [] d = "Down" -> "Up" [] d = "Left" -> "Right" [] d = "Right" -> "Left"

\* C7: for every i8 position p and direction d, offset never fails and
\* p.offset(d).offset(opposite(d)) == p.
C7_RoundTrip ==
  /\ \A i \in 1 .. Len(ps) : ps[i].ok
  /\ \A i \in 1 .. Len(moves) - 1 :
       moves[i + 1] = Opposite(moves[i]) => ps[i + 2].val = ps[i].val

(* ------------------------------------------------------------------------ *)
(* Properties of rotation (checked under SpecRot and SpecDir)                *)
(* ------------------------------------------------------------------------ *)

SamePiece(p, q) ==
  /\ p.direction = q.direction
  /\ p.position = q.position
  /\ \A i \in 1 .. 2 :
       /\ p.blocks[i].id = q.blocks[i].id
       /\ p.blocks[i].color = q.blocks[i].color
       /\ p.blocks[i].breaker = q.blocks[i].breaker

\* C8: clockwise and anti_clockwise undo each other on every direction, and
\* P.clockwise().anti_clockwise() has the blocks, direction and position of P.
C8_Inverse ==
  /\ \A d \in Direction :
       /\ Direction_anti_clockwise(Direction_clockwise(d)) = d
       /\ Direction_clockwise(Direction_anti_clockwise(d)) = d
  /\ \A i \in 1 .. Len(rots) - 1 :
       /\ (rots[i] = "clockwise" /\ rots[i + 1] = "anti_clockwise") =>
            SamePiece(hist[i + 2], hist[i])
       /\ (rots[i] = "anti_clockwise" /\ rots[i + 1] = "clockwise") =>
            hist[i + 2].direction = hist[i].direction

\* a piece turned to face Down, then rotated clockwise and back
C8_Witness ==
  /\ Len(rots) = 4
  /\ hist[3].direction = "Down"
  /\ rots[3] = "clockwise" /\ rots[4] = "anti_clockwise"
  /\ hist[4].direction = "Left"
  /\ SamePiece(hist[5], hist[3])

\* C9: clockwise is one cycle of length four, Up -> Right -> Down -> Left ->
\* Up: four clockwise turns return the direction they started from, one, two
\* or three never do; Direction::all() lists the directions in that order.
C9_Cycle ==
  /\ \A i \in 1 .. Len(dirs) : \A k \in 1 .. 4 :
       (i + k <= Len(dirs) /\ \A j \in i .. i + k - 1 : turns[j] = "clockwise") =>
         ((dirs[i + k] = dirs[i]) <=> (k = 4))
  /\ Len(Direction_all) = 4
  /\ Direction_all = <<"Up", "Right", "Down", "Left">>
  /\ {Direction_all[i] : i \in 1 .. 4} = Direction
  /\ \A i \in 1 .. 3 : Direction_all[i + 1] = Direction_clockwise(Direction_all[i])
  /\ Direction_clockwise(Direction_all[4]) = Direction_all[1]

\* four clockwise turns from Down came back to Down
C9_Witness ==
  /\ Len(turns) = 4
  /\ \A j \in 1 .. 4 : turns[j] = "clockwise"
  /\ dirs[1] = "Down" /\ dirs[3] = "Up" /\ dirs[5] = "Down"

====
